---- MODULE Spec2Model ----
(***************************************************************************)
(* IT Provisioning Dashboard API (src/main.py, src/schemas.py).            *)
(*                                                                         *)
(* The state is the external document store (collections employee,        *)
(* session, task, each kept in insertion order), the module-level handle   *)
(* db (None when the store is unconfigured), the login requests that are   *)
(* between their employee lookup and their session insert, and the         *)
(* response of the call that completed last.  Python strings are TLA+      *)
(* strings, None for an Optional[str] is the string None below, a dict is  *)
(* a set of <<key, value>> pairs, a collection is a sequence of records.   *)
(***************************************************************************)
EXTENDS Naturals, Sequences, FiniteSets, Bags

VARIABLES
    db,         \* TRUE iff `db is not None` (database.db, fixed per process)
    employee,   \* collection "employee"
    session,    \* collection "session"
    task,       \* collection "task"
    inflight,   \* bag of login requests past the password check, before
                \* their insert, each with the number of sessions it began at
    last,       \* the call that completed last: its request and response
    issued,     \* history: <<token, nik>> of every LoginResponse returned
    created     \* history: [nik, id] of every TaskResponse returned

vars == <<db, employee, session, task, inflight, last, issued, created>>

----------------------------------------------------------------------------
(* Bounds of the model. *)

\* Spec: every kind of request, few documents.
MaxSessions == 1
MaxTasks == 2
MaxInflight == 1
\* SpecOwners: several sessions and owners, concurrent logins.
OwnerSessions == 2
OwnerTasks == 2
OwnerInflight == 2
\* SpecBulk: one employee with more tasks than a listing returns.
BulkTasks == 51
BulkOther == 1
BulkSessions == 2

----------------------------------------------------------------------------
(* Values. *)

None == "None"

\* secrets.token_hex(16): 32 hex characters; the model's token space.
TokenNames ==
    <<"0a1f", "1b2e", "2c3d", "3d4c", "4e5b", "5f6a">>

Tokens(n) == {TokenNames[i] : i \in 1..n}

\* A string no token_hex call returns (not hexadecimal).
BogusToken == "zz-not-a-token"

\* The documents seed_employee inserts.
DemoUser ==
    [nik |-> "EMP001", name |-> "Demo User", division |-> "IT",
     password |-> "12345", is_active |-> TRUE]

RequestedUser ==
    [nik |-> "555501254121", name |-> "User 555501254121", division |-> "IT",
     password |-> "12345", is_active |-> TRUE]

\* An employee document some earlier deployment left under a demo nik.
ExistingUser ==
    [nik |-> "EMP001", name |-> "Existing User", division |-> "HR",
     password |-> "s3cret", is_active |-> FALSE]

TaskTypes == {"install_packages", "activate_windows", "activate_office"}

ListLimit == 50

----------------------------------------------------------------------------
(* Responses. *)

HTTPException(status, detail) == [status |-> status, detail |-> detail]

StoreUnavailable == HTTPException(500, "Database not configured")
MissingToken == HTTPException(401, "Token required")
InvalidToken == HTTPException(401, "Invalid token")
UnknownIdentifier == HTTPException(401, "NIK tidak ditemukan")
BadPassword == HTTPException(401, "Password salah")
InvalidTaskType == HTTPException(400, "Invalid task type")

----------------------------------------------------------------------------
(* The store adapter. *)

\* coll.find_one({field: value}): the first matching document in store
\* order, as a sequence of zero or one documents (empty: None).
find_one(coll, field, value) ==
    LET hits == {i \in 1..Len(coll) : coll[i][field] = value}
    IN  IF hits = {} THEN <<>>
        ELSE <<coll[CHOOSE i \in hits : \A j \in hits : i <= j]>>

\* coll.insert_one(doc)
insert_one(coll, doc) == Append(coll, doc)

RECURSIVE SelectDocs(_, _, _)
SelectDocs(coll, field, value) ==
    IF coll = <<>> THEN <<>>
    ELSE IF Head(coll)[field] = value
         THEN <<Head(coll)>> \o SelectDocs(Tail(coll), field, value)
         ELSE SelectDocs(Tail(coll), field, value)

Truncate(docs, limit) ==
    IF Len(docs) <= limit THEN docs ELSE SubSeq(docs, 1, limit)

\* database.get_documents(collection, {field: value}, limit)
get_documents(coll, field, value, limit) ==
    Truncate(SelectDocs(coll, field, value), limit)

\* The identifier the store assigns to the next document of a collection.
ObjectId(coll) == [oid |-> Len(coll) + 1]

\* str(ObjectId)
str(id) == id.oid

\* database.create_document(collection, doc): the collection afterwards.
create_document(coll, doc) ==
    insert_one(coll, [_id |-> ObjectId(coll), nik |-> doc.nik,
                      type |-> doc.type, status |-> doc.status,
                      payload |-> doc.payload])

----------------------------------------------------------------------------
(* Helpers of main.py. *)

\* get_collection raises when db is None.
get_collection_raises == ~db

\* str.lower() on the schemes the requests use.
lower(s) ==
    CASE s = "Bearer" -> "bearer"
      [] s = "BEARER" -> "bearer"
      [] s = "Basic" -> "basic"
      [] OTHER -> s

\* An Authorization value: scheme, then (with space) one blank and rest.
Authorization(scheme, space, rest) ==
    [given |-> TRUE, scheme |-> scheme, space |-> space, rest |-> rest]

NoAuthorization ==
    [given |-> FALSE, scheme |-> "", space |-> FALSE, rest |-> ""]

\* token = None; if authorization and authorization.lower().startswith(
\* "bearer "): token = authorization.split(" ", 1)[1]
bearer_token(authorization) ==
    IF /\ authorization.given
       /\ ~(/\ authorization.scheme = "" /\ ~authorization.space
            /\ authorization.rest = "")
       /\ lower(authorization.scheme) = "bearer"
       /\ authorization.space
    THEN authorization.rest
    ELSE None

\* auth_dependency(token): the nik, or the HTTPException raised.
auth_dependency(token) ==
    IF token \in {None, ""} THEN [ok |-> FALSE, error |-> MissingToken]
    ELSE IF get_collection_raises
         THEN [ok |-> FALSE, error |-> StoreUnavailable]
    ELSE LET doc == find_one(session, "token", token)
         IN  IF doc = <<>> THEN [ok |-> FALSE, error |-> InvalidToken]
             ELSE [ok |-> TRUE, nik |-> doc[1].nik]

----------------------------------------------------------------------------
(* Initial states: a process starting on an unconfigured store, an empty   *)
(* store, or a store that already holds an employee under a demo nik.      *)

NoCall == [op |-> "none"]

Init ==
    /\ db \in BOOLEAN
    /\ employee \in (IF db THEN {<<>>, <<ExistingUser>>} ELSE {<<>>})
    /\ session = <<>>
    /\ task = <<>>
    /\ inflight = EmptyBag
    /\ last = NoCall
    /\ issued = {}
    /\ created = <<>>

----------------------------------------------------------------------------
(* Startup seeding. *)

\* The document inserted at every start.
seed_always(coll, doc) == insert_one(coll, doc)

\* if not coll.find_one({"nik": doc.nik}): coll.insert_one(doc)
seed_if_absent(coll, doc) ==
    IF find_one(coll, "nik", doc.nik) = <<>> THEN insert_one(coll, doc)
    ELSE coll

seed_employee ==
    /\ employee' = IF ~db THEN employee
                   ELSE seed_if_absent(seed_if_absent(employee, DemoUser),
                                       RequestedUser)
    /\ last' = [op |-> "seed", returned |-> TRUE,
                inserted |-> Len(employee') - Len(employee)]
    /\ UNCHANGED <<db, session, task, inflight, issued, created>>

----------------------------------------------------------------------------
(* POST /api/login, in two steps: the employee lookup and password check,  *)
(* then the token draw and the session insert.  Handlers run on a thread   *)
(* pool, so several logins can be between the two steps at once.           *)

LoginRequest(nik, password) == [nik |-> nik, password |-> password]

\* A lookup by nik and password at once: a wrong password reads as an
\* unknown nik.
login_lookup_by_credentials(payload) ==
    IF get_collection_raises THEN [ok |-> FALSE, error |-> StoreUnavailable]
    ELSE LET user == find_one(SelectDocs(employee, "password",
                                         payload.password),
                              "nik", payload.nik)
         IN  IF user = <<>> THEN [ok |-> FALSE, error |-> UnknownIdentifier]
             ELSE [ok |-> TRUE, user |-> user[1]]

\* Lines 97-102: the exception raised, or the employee document found.
login_lookup(payload) ==
    IF get_collection_raises THEN [ok |-> FALSE, error |-> StoreUnavailable]
    ELSE LET user == find_one(employee, "nik", payload.nik)
         IN  IF user = <<>> THEN [ok |-> FALSE, error |-> UnknownIdentifier]
             ELSE IF user[1].password # payload.password
                  THEN [ok |-> FALSE, error |-> BadPassword]
             ELSE [ok |-> TRUE, user |-> user[1]]

\* secrets.token_hex(16): 128 bits from the system's CSPRNG.  The values a
\* call may return are the tokens of the space no earlier call returned
\* (a nonce: the 2^-128 chance of a repeat is not a behaviour of the model).
token_hex(space) ==
    space \ ({session[i].token : i \in 1..Len(session)}
             \cup {it[1] : it \in issued})

\* One token per employee: a later login gets the employee's first token.
login_token_reused(user, drawn) ==
    LET doc == find_one(session, "nik", user.nik)
    IN  IF doc = <<>> THEN drawn ELSE doc[1].token

\* Line 104: the token of the new session is the fresh draw.
login_token(user, drawn) == drawn

\* One session per employee: a login replaces the employee's sessions.
login_session_single(token, user) ==
    insert_one(SelectSeq(session, LAMBDA doc : doc.nik # user.nik),
               [token |-> token, nik |-> user.nik])

\* Lines 105-106: sess.insert_one({"token": token, "nik": user["nik"]})
login_session(token, user) ==
    insert_one(session, [token |-> token, nik |-> user.nik])

LoginResponse(token, user) ==
    [token |-> token, nik |-> user.nik, name |-> user.name,
     division |-> user.division]

login_begin(niks, passwords, maxSessions, maxInflight) ==
    \E nik \in niks, password \in passwords :
        LET payload == LoginRequest(nik, password)
            found == login_lookup(payload)
        IN  \/ /\ ~found.ok
               /\ last' = [op |-> "login", req |-> payload,
                           ok |-> FALSE, error |-> found.error]
               /\ UNCHANGED <<db, employee, session, task, inflight,
                              issued, created>>
            \/ /\ found.ok
               /\ BagCardinality(inflight) < maxInflight
               /\ Len(session) + BagCardinality(inflight) < maxSessions
               /\ inflight' = inflight (+)
                      SetToBag({[payload |-> payload, user |-> found.user,
                                  began |-> Len(session)]})
               /\ UNCHANGED <<db, employee, session, task, last,
                              issued, created>>

login_insert(space) ==
    \E call \in BagToSet(inflight) :
        \E drawn \in token_hex(space) :
            LET token == login_token(call.user, drawn)
            IN  /\ session' = login_session(token, call.user)
                /\ inflight' = inflight (-) SetToBag({call})
                /\ last' = [op |-> "login", req |-> call.payload, ok |-> TRUE,
                            response |-> LoginResponse(token, call.user),
                            began |-> call.began]
                /\ issued' = issued \cup {<<token, call.user.nik>>}
                /\ UNCHANGED <<db, employee, task, created>>

----------------------------------------------------------------------------
(* POST /api/tasks *)

\* TaskCreateRequest.payload: Optional[Dict[str, Any]]
NoPayload == [given |-> FALSE, value |-> {}]
Payload(dict) == [given |-> TRUE, value |-> dict]

TaskCreateRequest(type, payload) == [type |-> type, payload |-> payload]

\* payload.payload or {}
payload_or_empty(payload) ==
    IF payload.given /\ payload.value # {} THEN payload.value ELSE {}

\* The payload is not passed on.
task_doc_without_payload(nik, payload) ==
    [nik |-> nik, type |-> payload.type, status |-> "pending",
     payload |-> {}]

\* Lines 134-139
task_doc(nik, payload) ==
    [nik |-> nik, type |-> payload.type, status |-> "pending",
     payload |-> payload_or_empty(payload.payload)]

\* No validation of the type.
valid_type_any(type) == TRUE

\* Line 130
valid_type(type) == type \in TaskTypes

TaskResponse(id, status) == [id |-> id, status |-> status]

Raised(error) == [ok |-> FALSE, error |-> error, nik |-> None, task |-> task]

Inserted(nik, payload) ==
    [ok |-> TRUE, nik |-> nik,
     task |-> create_document(task, task_doc(nik, payload)),
     response |-> TaskResponse(str(ObjectId(task)), "pending")]

\* The type validated before the token.
create_task_type_first(payload, authorization) ==
    LET token == bearer_token(authorization)
        auth == auth_dependency(token)
    IN  IF ~valid_type(payload.type) THEN Raised(InvalidTaskType)
        ELSE IF ~auth.ok THEN Raised(auth.error)
        ELSE Inserted(auth.nik, payload)

\* The document inserted before its type is validated.
create_task_insert_first(payload, authorization) ==
    LET token == bearer_token(authorization)
        auth == auth_dependency(token)
    IN  IF ~auth.ok THEN Raised(auth.error)
        ELSE IF ~valid_type(payload.type)
        THEN [ok |-> FALSE, error |-> InvalidTaskType, nik |-> auth.nik,
              task |-> Inserted(auth.nik, payload).task]
        ELSE Inserted(auth.nik, payload)

\* Lines 125-141: the task collection afterwards and the response.
create_task_run(payload, authorization) ==
    LET token == bearer_token(authorization)
        auth == auth_dependency(token)
    IN  IF ~auth.ok THEN Raised(auth.error)
        ELSE IF ~valid_type(payload.type) THEN Raised(InvalidTaskType)
        ELSE Inserted(auth.nik, payload)

create_task(auths, types, payloads, mayCreate) ==
    \E authorization \in auths, type \in types, body \in payloads :
        LET payload == TaskCreateRequest(type, body)
            run == create_task_run(payload, authorization)
        IN  /\ run.task # task => mayCreate[run.nik]
            /\ task' = run.task
            /\ last' = IF run.ok
                       THEN [op |-> "create", ok |-> TRUE,
                             req |-> [type |-> type, payload |-> body,
                                      authorization |-> authorization],
                             response |-> run.response]
                       ELSE [op |-> "create", ok |-> FALSE,
                             req |-> [type |-> type,
                                      authorization |-> authorization],
                             error |-> run.error]
            /\ created' = IF run.ok
                          THEN Append(created, [nik |-> run.nik,
                                                id |-> run.response.id])
                          ELSE created
            /\ UNCHANGED <<db, employee, session, inflight, issued>>

----------------------------------------------------------------------------
(* GET /api/tasks *)

\* No filter on the owner.
my_tasks_unfiltered(nik) == Truncate(task, ListLimit)

\* No limit on the result.
my_tasks_unlimited(nik) == SelectDocs(task, "nik", nik)

\* Line 150
my_tasks(nik) == get_documents(task, "nik", nik, ListLimit)

\* Lines 153-154: if "_id" in t: t["id"] = str(t.pop("_id"))
rename_id(t) ==
    IF "_id" \in DOMAIN t
    THEN [k \in (DOMAIN t \ {"_id"}) \cup {"id"} |->
              IF k = "id" THEN str(t._id) ELSE t[k]]
    ELSE t

list_my_tasks_run(authorization) ==
    LET token == bearer_token(authorization)
        auth == auth_dependency(token)
    IN  IF ~auth.ok THEN [ok |-> FALSE, error |-> auth.error]
        ELSE LET tasks == my_tasks(auth.nik)
             IN  [ok |-> TRUE, nik |-> auth.nik,
                  response |-> [i \in 1..Len(tasks) |-> rename_id(tasks[i])]]

list_my_tasks(auths) ==
    \E authorization \in auths :
        LET run == list_my_tasks_run(authorization)
        IN  /\ last' = IF run.ok
                       THEN [op |-> "list", ok |-> TRUE,
                             req |-> [authorization |-> authorization],
                             response |-> run.response]
                       ELSE [op |-> "list", ok |-> FALSE,
                             req |-> [authorization |-> authorization],
                             error |-> run.error]
            /\ UNCHANGED <<db, employee, session, task, inflight, issued,
                           created>>

----------------------------------------------------------------------------
(* Request values. *)

NikInputs == {"EMP001", "555501254121", "EMP404"}
\* Spec logs one employee in and varies the requests; SpecOwners and
\* SpecBulk log both demo employees in.
LoginNiks == {"EMP001", "EMP404"}
PasswordInputs == {"12345", "s3cret"}
TypeInputs == {"install_packages", "activate_office", "reboot"}
PayloadInputs == {NoPayload, Payload({}), Payload({<<"division", "IT">>})}

Bearer(token) == Authorization("Bearer", TRUE, token)

\* Absent, other scheme, other case, empty token, unknown token, and the
\* tokens of the space (issued or not yet).
AuthInputs(space) ==
    {NoAuthorization, Authorization("Basic", TRUE, TokenNames[1]),
     Authorization("BEARER", TRUE, TokenNames[1]),
     Bearer(""), Bearer(BogusToken)}
    \cup {Bearer(t) : t \in space}

\* The employees that may still create a task, within the bounds.
MayCreate == [nik \in NikInputs |-> Len(task) < MaxTasks]

\* The API under any interleaving of its calls.
Next ==
    \/ seed_employee
    \/ login_begin(LoginNiks, PasswordInputs, MaxSessions, MaxInflight)
    \/ login_insert(Tokens(MaxSessions))
    \/ create_task(AuthInputs(Tokens(MaxSessions)), TypeInputs,
                   PayloadInputs, MayCreate)
    \/ list_my_tasks(AuthInputs(Tokens(MaxSessions)))

Spec == Init /\ [][Next]_vars

\* Several employees logged in, each several times, and owning tasks.
OwnerAuthInputs(space) ==
    {NoAuthorization, Bearer(BogusToken)} \cup {Bearer(t) : t \in space}

OwnerMayCreate == [nik \in NikInputs |-> Len(task) < OwnerTasks]

NextOwners ==
    \/ seed_employee
    \/ login_begin({"EMP001", "555501254121"}, {"12345"}, OwnerSessions,
                   OwnerInflight)
    \/ login_insert(Tokens(OwnerSessions))
    \/ create_task(OwnerAuthInputs(Tokens(OwnerSessions)),
                   {"activate_windows", "reboot"}, {NoPayload},
                   OwnerMayCreate)
    \/ list_my_tasks(OwnerAuthInputs(Tokens(OwnerSessions)))

SpecOwners == Init /\ [][NextOwners]_vars

\* One employee creating more tasks than a listing returns, after a few
\* tasks of another employee.
BulkMayCreate ==
    [nik \in NikInputs |->
        IF nik = "EMP001" THEN Len(SelectDocs(task, "nik", nik)) < BulkTasks
        ELSE Len(task) < BulkOther]

BulkAuthInputs == {Bearer(t) : t \in Tokens(BulkSessions)}

NextBulk ==
    \/ seed_employee
    \/ login_begin({"EMP001", "555501254121"}, {"12345"}, BulkSessions, 1)
    \/ login_insert(Tokens(BulkSessions))
    \/ create_task(BulkAuthInputs, {"activate_office"}, {NoPayload},
                   BulkMayCreate)
    \/ list_my_tasks(BulkAuthInputs)

SpecBulk == Init /\ [][NextBulk]_vars

----------------------------------------------------------------------------
(* Properties. *)

SessionTokens == {session[j].token : j \in 1..Len(session)}

\* The niks the session collection binds to a token.
BoundNiks(token) ==
    {session[j].nik : j \in {k \in 1..Len(session) : session[k].token = token}}

LastToken == bearer_token(last.req.authorization)

IsPrefix(old, new) ==
    /\ Len(old) <= Len(new)
    /\ SubSeq(new, 1, Len(old)) = old

\* C1: a listing with a valid token returns only tasks whose owner is the
\* nik the session collection binds to that token, whatever other
\* employees' tasks the store holds.
C1_ListReturnsOnlyOwnTasks ==
    (last.op = "list" /\ last.ok) =>
        /\ Cardinality(BoundNiks(LastToken)) = 1
        /\ \A i \in 1..Len(last.response) :
               last.response[i].nik \in BoundNiks(LastToken)

C1_Witness ==
    /\ last.op = "list" /\ last.ok
    /\ last.response # <<>>
    /\ \E i \in 1..Len(task) : task[i].nik \notin BoundNiks(LastToken)

\* C2: every token a login returned keeps authenticating the nik that logged
\* in, in every later state: never another nik, never an exception.
C2_TokenAuthenticatesItsIdentifier ==
    \A it \in issued : auth_dependency(it[1]) = [ok |-> TRUE, nik |-> it[2]]

C2_Witness ==
    /\ \E a \in issued, b \in issued : a[1] # b[1]
    /\ task # <<>>
    /\ last.op = "list" /\ last.ok

\* No two session records share a token, and every login returned its own.
C3_TokensDistinct ==
    /\ \A i \in 1..Len(session), j \in 1..Len(session) :
           i # j => session[i].token # session[j].token
    /\ Cardinality(issued) = Len(session)

\* A login that leaves the bag of logins in flight has succeeded.
C3_LoginReturns ==
    BagCardinality(inflight') < BagCardinality(inflight) =>
        /\ last'.op = "login" /\ last'.ok
        /\ last'.response.token \notin SessionTokens
        /\ \A it \in issued : it[1] # last'.response.token
        /\ session' = Append(session, [token |-> last'.response.token,
                                       nik |-> last'.req.nik])

\* C3: the session collection never holds two records with one token; a
\* login past its password check returns successfully with a token no
\* earlier login returned and appends its own session record, also while
\* another login for the same nik is in flight.
C3_EveryLoginItsOwnSession == []C3_TokensDistinct /\ [][C3_LoginReturns]_vars

\* A login returned for a nik after another login for that nik had returned
\* while it was in flight: the two overlapped and each has its own session.
C3_Witness ==
    /\ last.op = "login" /\ last.ok
    /\ \E j \in (last.began + 1)..(Len(session) - 1) :
           /\ session[j].nik = last.req.nik
           /\ session[j].token # last.response.token

\* The response of a login, by what the employee collection holds.
C4_Classified ==
    last.op = "login" =>
        LET user == find_one(employee, "nik", last.req.nik)
        IN  /\ user = <<>> =>
                /\ ~last.ok
                /\ last.error # BadPassword
                /\ db => last.error = UnknownIdentifier
            /\ (user # <<>> /\ user[1].password # last.req.password) =>
                /\ ~last.ok
                /\ last.error = BadPassword

\* A step ending in a failed login leaves the sessions alone.
C4_NoSession ==
    (last'.op = "login" /\ ~last'.ok) => session' = session

\* C4: a login for a nik without an employee record fails with "NIK tidak
\* ditemukan" (never "Password salah") whatever the password; a login for a
\* nik with an employee record and another password fails with "Password
\* salah"; a failed login creates no session record.
C4_LoginFailuresByIdentifierFirst == []C4_Classified /\ [][C4_NoSession]_vars

C4_Witness ==
    /\ last.op = "login" /\ ~last.ok
    /\ last.error = BadPassword
    /\ find_one(employee, "nik", last.req.nik) # <<>>

\* C5 as stated: a task creation with a type outside the enum fails with
\* "Invalid task type" whether or not the token is valid.
C5_InvalidTypeWhateverTheToken ==
    (last.op = "create" /\ last.req.type \notin TaskTypes) =>
        (~last.ok /\ last.error = InvalidTaskType)

\* C5 amended: a task creation with a type outside the enum always fails;
\* with "Invalid task type" when the token is that of a session, and with
\* the authentication failure when the token is absent, malformed or
\* unknown.
C5_InvalidTypeAfterAuthentication ==
    (last.op = "create" /\ last.req.type \notin TaskTypes) =>
        /\ ~last.ok
        /\ LastToken \in SessionTokens => last.error = InvalidTaskType
        /\ LastToken \in {None, ""} => last.error = MissingToken
        /\ (LastToken \notin {None, ""} /\ LastToken \notin SessionTokens) =>
               last.error = IF db THEN InvalidToken ELSE StoreUnavailable

C5_Witness ==
    /\ last.op = "create" /\ last.req.type \notin TaskTypes
    /\ LastToken \in SessionTokens
    /\ last.error = InvalidTaskType

\* The status of a failed task creation, by its token.
C6_Status ==
    (last.op = "create" /\ ~last.ok) =>
        /\ LastToken \in {None, ""} => last.error.status = 401
        /\ (db /\ LastToken \notin SessionTokens) => last.error.status = 401
        /\ LastToken \in SessionTokens =>
               (last.error.status = 400 /\ last.req.type \notin TaskTypes)

\* A step ending in a failed task creation leaves the store alone.
C6_Frame ==
    (last'.op = "create" /\ ~last'.ok) =>
        (task' = task /\ employee' = employee /\ session' = session)

\* C6: a failed task creation persists nothing; it is a 401 when the token
\* is absent, malformed or not in the session collection, and a 400 when
\* the token is valid and the type is outside the enum.
C6_FailedCreatePersistsNothing == []C6_Status /\ [][C6_Frame]_vars

C6_Witness ==
    /\ last.op = "create" /\ ~last.ok
    /\ last.error.status = 400
    /\ task # <<>>

\* A step in which create_task returned a TaskResponse.
C7_Insert ==
    created' # created =>
        LET doc == task'[Len(task')]
            req == last'.req
        IN  /\ last'.op = "create" /\ last'.ok
            /\ Len(task') = Len(task) + 1
            /\ IsPrefix(task, task')
            /\ BoundNiks(bearer_token(req.authorization)) = {doc.nik}
            /\ doc.type = req.type
            /\ doc.status = "pending"
            /\ doc.payload = IF req.payload.given THEN req.payload.value
                             ELSE {}
            /\ \A i \in 1..Len(task) : task[i]._id # doc._id
            /\ last'.response = [id |-> str(doc._id), status |-> "pending"]
            /\ session' = session
            /\ employee' = employee

\* C7: a successful task creation appends exactly one record: owner the nik
\* bound to the token, the given type, status pending, the given payload (the
\* empty mapping when absent); it returns that record's new id with status
\* pending and leaves the earlier tasks, the sessions and the employees
\* as they were.
C7_CreateInsertsOneRecord == [][C7_Insert]_vars

C7_Witness ==
    /\ last.op = "create" /\ last.ok
    /\ ~last.req.payload.given
    /\ Len(task) >= 2

\* The ids create_task returned to an employee.
ReturnedIds(nik) ==
    {created[i].id : i \in {k \in 1..Len(created) : created[k].nik = nik}}

\* C8: a listing returns the employee's tasks under the ids create_task
\* returned, each with a field id and no field _id: all of them when they
\* are at most 50, and 50 of them when they are more.
C8_ListReturnsCreatedTasks ==
    (last.op = "list" /\ last.ok) =>
        LET own == UNION {ReturnedIds(nik) : nik \in BoundNiks(LastToken)}
            got == {last.response[i].id : i \in 1..Len(last.response)}
        IN  /\ \A i \in 1..Len(last.response) :
                   /\ "id" \in DOMAIN last.response[i]
                   /\ "_id" \notin DOMAIN last.response[i]
            /\ Cardinality(got) = Len(last.response)
            /\ got \subseteq own
            /\ Cardinality(own) <= 50 => got = own
            /\ Cardinality(own) > 50 => Len(last.response) = 50

C8_Witness ==
    /\ last.op = "list" /\ last.ok
    /\ Len(last.response) = 50
    /\ Len(task) > 51
    /\ \E i \in 1..Len(task) : task[i].nik \notin BoundNiks(LastToken)

DemoNiks == {DemoUser.nik, RequestedUser.nik}

\* After a run of the seeding on a configured store.
C9_OnePerDemoNik ==
    (db /\ last.op = "seed") =>
        \A nik \in DemoNiks : Len(SelectDocs(employee, "nik", nik)) = 1

\* A step ending in a run of the seeding.
C9_SeedStep ==
    last'.op = "seed" =>
        /\ last'.returned
        /\ IsPrefix(employee, employee')
        /\ ~db => employee' = employee
        /\ (\A nik \in DemoNiks : find_one(employee, "nik", nik) # <<>>) =>
               employee' = employee
        /\ session' = session /\ task' = task

\* C9: after seeding has run, the employee collection holds exactly one
\* record per demo nik; a run inserts nothing when both are present, never
\* modifies or removes a record, and on an unconfigured store changes
\* nothing and returns normally.
C9_SeedingIdempotent == []C9_OnePerDemoNik /\ [][C9_SeedStep]_vars

C9_Witness ==
    /\ db /\ last.op = "seed"
    /\ last.inserted = 0
    /\ employee[1] = ExistingUser

\* What every task record holds.
C10_TaskRecords ==
    \A i \in 1..Len(task) :
        /\ task[i].status = "pending"
        /\ task[i].type \in TaskTypes
        /\ \E j \in 1..Len(session) : session[j].nik = task[i].nik
        /\ \E e \in 1..Len(employee) : employee[e].nik = task[i].nik

\* A step keeps the task records there are.
C10_TasksKept == IsPrefix(task, task')

\* C10: every task record has status pending, a type of the enum and an
\* owner nik that some session record and some employee record carry; no
\* step modifies or removes a task record.
C10_TasksPendingAndKept == []C10_TaskRecords /\ [][C10_TasksKept]_vars

C10_Witness ==
    /\ Len(task) >= 2
    /\ task[1].type # task[2].type
    /\ last.op = "list" /\ last.ok

====
